---- MODULE Spec2Model ----
(***************************************************************************)
(* Ledger transaction preparation (src/ledger/transaction.ts):             *)
(*   getTransactionData      fee-aware UTXO selection                      *)
(*   createNativeSegwitPsbt  unsigned transaction, segwit inputs           *)
(*   createTaprootPsbt       unsigned transaction, taproot inputs          *)
(*   createMixedPsbt         unsigned transaction, both kinds of input     *)
(* One request is modelled: the caller invokes getTransactionData and, on  *)
(* success, hands the returned selection and change to one of the three    *)
(* create*Psbt functions.  Awaited collaborators complete in separate      *)
(* steps, successfully or not; the synchronous code between two awaits is  *)
(* one action.                                                             *)
(***************************************************************************)
EXTENDS Integers, Sequences, FiniteSets, TLC

(* ------------------------------ bounds -------------------------------- *)
MaxUtxos == 2
MaxRecipients == 2
MaxAmount == 2
MaxFee == 2

(* --------------------------- value universe --------------------------- *)
PaymentAddress == "payment"
OrdinalsAddress == "ordinals"
OtherAddress == "other"
RecipientAddress == "recipient"

\* The k-th output of the payment address: outputs 1 and 2 share a parent
\* transaction, output 3 lives in the next one, and so on.
PaymentUtxo(k) ==
    [txid |-> (k + 1) \div 2, vout |-> (k + 1) % 2, value |-> k,
     address |-> PaymentAddress]

\* An inscribed output held by the ordinals (taproot) address.
OrdinalsUtxo == [txid |-> 2, vout |-> 1, value |-> 1, address |-> OrdinalsAddress]

PaymentUtxos == [k \in 1..MaxUtxos |-> PaymentUtxo(k)]

\* An optional value is a sequence of length 0 (undefined) or 1.
Undefined == <<>>
Some(v) == <<v>>
IsDefined(o) == o # <<>>
Get(o) == o[1]

RECURSIVE SubSeqs(_)
\* Every subsequence of s, relative order preserved.
SubSeqs(s) ==
    IF s = <<>> THEN {<<>>}
    ELSE LET rest == SubSeqs(Tail(s))
         IN  rest \cup {<<Head(s)>> \o t : t \in rest}

Range(s) == {s[i] : i \in DOMAIN s}

SameOutpoint(a, b) == a.txid = b.txid /\ a.vout = b.vout

(* ----------------------- collaborators (../transactions/btc, ../api) --- *)
RECURSIVE sumUnspentOutputs(_)
sumUnspentOutputs(utxos) ==
    IF utxos = <<>> THEN 0 ELSE Head(utxos).value + sumUnspentOutputs(Tail(utxos))

\* fundable = unspent \ payload-marked, relative order preserved
filterUtxos(unspent, ordinals) ==
    LET Keep(u) == \A o \in Range(ordinals) : ~SameOutpoint(u, o)
    IN  SelectSeq(unspent, Keep)

\* The selections the heuristic may return: the pinned output, when given,
\* followed by some of the other candidates in candidate order.
selectUnspentOutputs(amountSats, feeRate, candidates, pinned) ==
    IF IsDefined(pinned)
    THEN LET Other(u) == ~SameOutpoint(u, Get(pinned))
         IN  {<<Get(pinned)>> \o t : t \in SubSeqs(SelectSeq(candidates, Other))}
    ELSE SubSeqs(candidates)

\* The (selection, fee) pairs reconciliation may return: it re-runs the
\* heuristic over the candidates and prices the outcome.
getFee(candidates, selected, sumSelected, amountSats, rcpts, rate, changeAddr, pinned) ==
    {[newSelectedUnspentOutputs |-> s, fee |-> f] :
        s \in selectUnspentOutputs(amountSats, rate, candidates, pinned),
        f \in 0..MaxFee}

defaultFeeRate == [limits |-> [min |-> 1, max |-> 5], regular |-> 2, priority |-> 5]
\* what fetchBtcFeeRate answers
networkFeeRate == [limits |-> [min |-> 1, max |-> 5], regular |-> 3, priority |-> 4]

\* Number(feeRateInput): a decimal digit string to its value
RECURSIVE Number(_)
Number(digits) ==
    IF digits = <<>> THEN 0
    ELSE 10 * Number(SubSeq(digits, 1, Len(digits) - 1)) + digits[Len(digits)]

\* ErrorCodes.InSufficientBalanceWithTxFee, the statusCode thrown
InSufficientBalanceWithTxFee == "InSufficientBalanceWithTxFee"
\* the failure a collaborator rejects with
CollaboratorError(name) == "failed:" \o name

\* esploraProvider.getTransactionHex(txid): the raw transaction as hex digits
getTransactionHex(txid) == <<0, txid, 10, txid>>

\* opaque signing metadata supplied by the caller
WitnessScript == "witnessScript"
TaprootScript == "taprootScript"
TapInternalKey == "tapInternalKey"
InputDerivation == "bip32Derivation"
TaprootInputDerivation == "tapBip32Derivation"


(* ------------------------------- state -------------------------------- *)
VARIABLES
    pc,                          \* where the request stands
    recipients, feeRateInput, ordinalUtxo,      \* getTransactionData arguments
    gather,                      \* the two promises of the Promise.all of line 36
    unspentOutputs, addressOrdinalsUtxos,       \* what they resolved to
    ordinalUtxoInPaymentAddress, filteredUnspentOutputs, feeRate, amountSats,
    selectedUTXOs, sumOfSelectedUTXOs,          \* locals of getTransactionData
    provisional,                 \* what selectUnspentOutputs returned (line 51)
    reconciled,                  \* what getFee resolved to (line 65)
    calls,                       \* invocations of each collaborator so far
    returned,                    \* the value getTransactionData resolved to
    thrown,                      \* the value the function in progress rejected with
    variant, changeAddress, changeValue, inputUTXOs,   \* create*Psbt arguments
    hexFetch,                    \* the promises of the Promise.all of lines 119, 253
    transactionMap,              \* txid -> Buffer (lines 117, 251)
    psbt,                        \* the container under construction
    psbtReturned,                \* the container create*Psbt resolved to
    transaction, signatureVRS,   \* addSignatureToStxTransaction arguments
    stxReturned                  \* what addSignatureToStxTransaction returned

argVars == <<recipients, feeRateInput, ordinalUtxo>>
gatherVars == <<gather, unspentOutputs, addressOrdinalsUtxos>>
localVars ==
    <<ordinalUtxoInPaymentAddress, filteredUnspentOutputs, feeRate, amountSats,
      selectedUTXOs, sumOfSelectedUTXOs, provisional, reconciled>>
asmVars ==
    <<variant, changeAddress, changeValue, inputUTXOs, hexFetch, transactionMap,
      psbt, psbtReturned>>

stxVars == <<transaction, signatureVRS, stxReturned>>

vars ==
    <<pc, argVars, gatherVars, localVars, calls, returned, thrown, asmVars, stxVars>>

Collaborators ==
    {"getUnspentUtxos", "getOrdinalsUtxos", "selectUnspentOutputs",
     "fetchBtcFeeRate", "getFee", "getTransactionHex"}

Recipient == [address : {RecipientAddress}, amountSats : 1..MaxAmount]
RecipientLists == UNION {[1..n -> Recipient] : n \in 0..MaxRecipients}
FeeRateInputs == {Undefined, Some(<<>>), Some(<<4>>)}
OrdinalUtxoInputs ==
    {Undefined, Some(OrdinalsUtxo)} \cup {Some(PaymentUtxo(k)) : k \in 1..MaxUtxos}
ChangeAddresses == {PaymentAddress, OtherAddress}

\* JavaScript truthiness of an optional string: undefined and "" are falsy
Truthy(str) == IsDefined(str) /\ Get(str) # <<>>

\* A Promise.all over the promises ps (name or index -> state): resolved once
\* all have, rejected with the first rejection.
NoPromises == [status |-> <<>>, rejection |-> Undefined]
Pending(names) == [status |-> [n \in names |-> "pending"], rejection |-> Undefined]
Resolve(all, n) == [all EXCEPT !.status[n] = "ok"]
Reject(all, n, error) ==
    [status |-> [all.status EXCEPT ![n] = "failed"],
     rejection |-> IF IsDefined(all.rejection) THEN all.rejection ELSE Some(error)]
\* a join satisfied by one fulfilled promise
AnyResolved(all) == \E n \in DOMAIN all.status : all.status[n] = "ok"
AllResolved(all) == \A n \in DOMAIN all.status : all.status[n] = "ok"
Rejected(all) == IsDefined(all.rejection)

(* ------------------- getTransactionData, piece by piece ---------------- *)
\* a join that lets the first retrieval through
GatherResolvedAny(g) == \E n \in DOMAIN g.status : g.status[n] = "ok"

\* a join that waits for the unspent outputs only
GatherResolvedUnspentOnly(g) ==
    /\ "getUnspentUtxos" \in DOMAIN g.status
    /\ g.status["getUnspentUtxos"] = "ok"

\* lines 36-39: what the awaited Promise.all lets through
GatherResolved(g) == AllResolved(g)
GatherRejected(g) == Rejected(g)

\* the membership test of lines 41-43 on the transaction id alone
OrdinalUtxoInPaymentAddressByTxid(unspent, ordinal) ==
    IF IsDefined(ordinal)
    THEN \E u \in Range(unspent) : u.txid = Get(ordinal).txid
    ELSE FALSE

\* lines 41-43
OrdinalUtxoInPaymentAddress(unspent, ordinal) ==
    IF IsDefined(ordinal)
    THEN \E u \in Range(unspent) : u.txid = Get(ordinal).txid /\ u.vout = Get(ordinal).vout
    ELSE FALSE

RECURSIVE AmountSats(_)
\* line 49: recipients.reduce((acc, value) => acc.plus(value.amountSats), 0)
AmountSats(rcpts) ==
    IF rcpts = <<>> THEN 0
    ELSE AmountSats(SubSeq(rcpts, 1, Len(rcpts) - 1)) + rcpts[Len(rcpts)].amountSats

\* line 53: feeRateInput ? Number(feeRateInput) : feeRate.regular
ProvisionalFeeRate(input, rate) ==
    IF Truthy(input) THEN Number(Get(input)) ELSE rate.regular

\* the pinned output left out of the two calls
PinnedArgumentDropped(ordinal) == Undefined

\* lines 55 and 74: the pinned output handed to the heuristic and to getFee
PinnedArgument(ordinal) == ordinal

\* the comparison of line 59 with its operands exchanged
InsufficientProvisionalSwapped(sum, amount) == amount < sum

\* line 59
InsufficientProvisional(sum, amount) == sum < amount

\* line 71: feeRateInput || feeRate
ReconcileFeeRate(input, rate) == IF Truthy(input) THEN Get(input) ELSE rate

\* the test of line 78 noticing a grown selection only
SelectionChangedGrown(newSelected, selected) == Len(newSelected) > Len(selected)

\* the test of line 78 on the members instead of the length
SelectionChangedMembers(newSelected, selected) == newSelected # selected

\* line 78
SelectionChanged(newSelected, selected) == Len(newSelected) # Len(selected)

\* the comparison of line 82 without the target
InsufficientReconciledNoAmount(sum, amount, fee) == sum < fee

\* line 82
InsufficientReconciled(sum, amount, fee) == sum < amount + fee

\* the subtraction of line 88 without the fee
ChangeValueNoFee(sum, amount, fee) == sum - amount

\* line 88
ChangeValue(sum, amount, fee) == (sum - amount) - fee

NoPsbt == [inputs |-> <<>>, outputs |-> <<>>]
EmptyMap == [t \in {} |-> <<>>]

Init ==
    /\ pc = "idle"
    /\ recipients \in RecipientLists
    /\ feeRateInput \in FeeRateInputs
    /\ ordinalUtxo \in OrdinalUtxoInputs
    /\ gather = NoPromises
    /\ unspentOutputs = <<>>
    /\ addressOrdinalsUtxos = <<>>
    /\ ordinalUtxoInPaymentAddress = FALSE
    /\ filteredUnspentOutputs = <<>>
    /\ feeRate = defaultFeeRate
    /\ amountSats = 0
    /\ selectedUTXOs = <<>>
    /\ sumOfSelectedUTXOs = 0
    /\ provisional = Undefined
    /\ reconciled = Undefined
    /\ calls = [c \in Collaborators |-> 0]
    /\ returned = Undefined
    /\ thrown = Undefined
    /\ variant = "none"
    /\ changeAddress = Undefined
    /\ changeValue = 0
    /\ inputUTXOs = <<>>
    /\ hexFetch = NoPromises
    /\ transactionMap = EmptyMap
    /\ psbt = NoPsbt
    /\ psbtReturned = Undefined
    /\ transaction = <<>>
    /\ signatureVRS = <<>>
    /\ stxReturned = Undefined

\* lines 27-39: the call issues both retrievals and awaits them together
CallGetTransactionData ==
    /\ pc = "idle"
    /\ pc' = "awaitGather"
    /\ gather' = Pending({"getUnspentUtxos", "getOrdinalsUtxos"})
    /\ calls' = [calls EXCEPT !["getUnspentUtxos"] = @ + 1,
                              !["getOrdinalsUtxos"] = @ + 1]
    /\ UNCHANGED <<stxVars, argVars, unspentOutputs, addressOrdinalsUtxos, localVars,
                   returned, thrown, asmVars>>

\* line 37: esploraProvider.getUnspentUtxos(senderAddress) answers
GetUnspentUtxosResolves ==
    /\ "getUnspentUtxos" \in DOMAIN gather.status
    /\ gather.status["getUnspentUtxos"] = "pending"
    /\ \E utxos \in SubSeqs(PaymentUtxos) : unspentOutputs' = utxos
    /\ gather' = Resolve(gather, "getUnspentUtxos")
    /\ UNCHANGED <<stxVars, pc, argVars, addressOrdinalsUtxos, localVars, calls, returned,
                   thrown, asmVars>>

GetUnspentUtxosRejects ==
    /\ "getUnspentUtxos" \in DOMAIN gather.status
    /\ gather.status["getUnspentUtxos"] = "pending"
    /\ gather' = Reject(gather, "getUnspentUtxos", CollaboratorError("getUnspentUtxos"))
    /\ UNCHANGED <<stxVars, pc, argVars, unspentOutputs, addressOrdinalsUtxos, localVars,
                   calls, returned, thrown, asmVars>>

\* line 38: getOrdinalsUtxos(esploraProvider, network, senderAddress) answers
GetOrdinalsUtxosResolves ==
    /\ "getOrdinalsUtxos" \in DOMAIN gather.status
    /\ gather.status["getOrdinalsUtxos"] = "pending"
    /\ \E utxos \in SubSeqs(PaymentUtxos) : addressOrdinalsUtxos' = utxos
    /\ gather' = Resolve(gather, "getOrdinalsUtxos")
    /\ UNCHANGED <<stxVars, pc, argVars, unspentOutputs, localVars, calls, returned, thrown,
                   asmVars>>

GetOrdinalsUtxosRejects ==
    /\ "getOrdinalsUtxos" \in DOMAIN gather.status
    /\ gather.status["getOrdinalsUtxos"] = "pending"
    /\ gather' = Reject(gather, "getOrdinalsUtxos", CollaboratorError("getOrdinalsUtxos"))
    /\ UNCHANGED <<stxVars, pc, argVars, unspentOutputs, addressOrdinalsUtxos, localVars,
                   calls, returned, thrown, asmVars>>

\* line 36: the awaited Promise.all rejects, and so does getTransactionData
GatherFails ==
    /\ pc = "awaitGather"
    /\ GatherRejected(gather)
    /\ pc' = "thrown"
    /\ thrown' = gather.rejection
    /\ UNCHANGED <<stxVars, argVars, gatherVars, localVars, calls, returned, asmVars>>

\* lines 41-64: filtering, the provisional selection, the fast reject and,
\* past it, the fee-rate request
SelectProvisional ==
    /\ pc = "awaitGather"
    /\ GatherResolved(gather)
    /\ LET inPayment == OrdinalUtxoInPaymentAddress(unspentOutputs, ordinalUtxo)
           filtered == filterUtxos(unspentOutputs, addressOrdinalsUtxos)
           amount == AmountSats(recipients)
       IN  \E selected \in selectUnspentOutputs(
                               amount, ProvisionalFeeRate(feeRateInput, feeRate),
                               filtered, PinnedArgument(ordinalUtxo)) :
             LET sum == sumUnspentOutputs(selected)
             IN  /\ ordinalUtxoInPaymentAddress' = inPayment
                 /\ filteredUnspentOutputs' = filtered
                 /\ amountSats' = amount
                 /\ selectedUTXOs' = selected
                 /\ provisional' = Some(selected)
                 /\ sumOfSelectedUTXOs' = sum
                 /\ IF InsufficientProvisional(sum, amount)
                    THEN /\ pc' = "thrown"
                         /\ thrown' = Some(InSufficientBalanceWithTxFee)
                         /\ calls' = [calls EXCEPT !["selectUnspentOutputs"] = @ + 1]
                    ELSE /\ pc' = "awaitFeeRate"
                         /\ thrown' = thrown
                         /\ calls' = [calls EXCEPT !["selectUnspentOutputs"] = @ + 1,
                                                   !["fetchBtcFeeRate"] = @ + 1]
    /\ UNCHANGED <<stxVars, argVars, gatherVars, feeRate, reconciled, returned, asmVars>>

\* line 64 resolves; line 65 calls getFee
FetchBtcFeeRateResolves ==
    /\ pc = "awaitFeeRate"
    /\ pc' = "awaitGetFee"
    /\ feeRate' = networkFeeRate
    /\ calls' = [calls EXCEPT !["getFee"] = @ + 1]
    /\ UNCHANGED <<stxVars, argVars, gatherVars, ordinalUtxoInPaymentAddress,
                   filteredUnspentOutputs, amountSats, selectedUTXOs,
                   sumOfSelectedUTXOs, provisional, reconciled, returned, thrown,
                   asmVars>>

\* a failed fee-rate fetch that is tried again instead of propagated
FetchBtcFeeRateRetried ==
    /\ pc = "awaitFeeRate"
    /\ calls["fetchBtcFeeRate"] < 3
    /\ calls' = [calls EXCEPT !["fetchBtcFeeRate"] = @ + 1]
    /\ UNCHANGED <<stxVars, pc, argVars, gatherVars, localVars, returned, thrown,
                   asmVars>>

FetchBtcFeeRateRejects ==
    /\ pc = "awaitFeeRate"
    /\ pc' = "thrown"
    /\ thrown' = Some(CollaboratorError("fetchBtcFeeRate"))
    /\ UNCHANGED <<stxVars, argVars, gatherVars, localVars, calls, returned, asmVars>>

\* lines 65-90: getFee resolves; re-validation, change, return
GetFeeResolves ==
    /\ pc = "awaitGetFee"
    /\ \E answer \in getFee(filteredUnspentOutputs, selectedUTXOs, sumOfSelectedUTXOs,
                            amountSats, recipients,
                            ReconcileFeeRate(feeRateInput, feeRate), PaymentAddress,
                            PinnedArgument(ordinalUtxo)) :
         LET changed == SelectionChanged(answer.newSelectedUnspentOutputs, selectedUTXOs)
             selected == IF changed THEN answer.newSelectedUnspentOutputs
                         ELSE selectedUTXOs
             sum == IF changed THEN sumUnspentOutputs(answer.newSelectedUnspentOutputs)
                    ELSE sumOfSelectedUTXOs
         IN  /\ reconciled' = Some(answer)
             /\ selectedUTXOs' = selected
             /\ sumOfSelectedUTXOs' = sum
             /\ IF changed /\ InsufficientReconciled(sum, amountSats, answer.fee)
                THEN /\ pc' = "thrown"
                     /\ thrown' = Some(InSufficientBalanceWithTxFee)
                     /\ returned' = returned
                ELSE /\ pc' = "returned"
                     /\ thrown' = thrown
                     /\ returned' =
                          Some([selectedUTXOs |-> selected,
                                changeValue |-> ChangeValue(sum, amountSats, answer.fee),
                                fee |-> answer.fee,
                                ordinalUtxoInPaymentAddress |-> ordinalUtxoInPaymentAddress])
    /\ UNCHANGED <<stxVars, argVars, gatherVars, ordinalUtxoInPaymentAddress,
                   filteredUnspentOutputs, feeRate, amountSats, provisional, calls,
                   asmVars>>

GetFeeRejects ==
    /\ pc = "awaitGetFee"
    /\ pc' = "thrown"
    /\ thrown' = Some(CollaboratorError("getFee"))
    /\ UNCHANGED <<stxVars, argVars, gatherVars, localVars, calls, returned, asmVars>>

(* ----------------------- create*Psbt, piece by piece ------------------- *)
\* 0xffffffff, the sequence of an input that opts out of replacement
SequenceFinal == <<65535, 65535>>

\* The 32-bit word 0xfffffffd of lines 137, 200, 273 and 286, as its two
\* 16-bit halves 0xffff and 0xfffd.
Sequence == <<65535, 65533>>

\* BigNumber.toNumber(): exact for the satoshi amounts of the model, which
\* are far below 2^53
toNumber(n) == n

RECURSIVE BufferFromHex(_)
\* Buffer.from(txHex, 'hex'): one byte per pair of hex digits
BufferFromHex(hex) ==
    IF Len(hex) < 2 THEN <<>>
    ELSE <<16 * hex[1] + hex[2]>> \o BufferFromHex(SubSeq(hex, 3, Len(hex)))

\* transactionMap[txid]: undefined for a key never written
Lookup(map, txid) == IF txid \in DOMAIN map THEN map[txid] ELSE Undefined

\* a store that overwrites every entry with the bytes that arrived last
StoreShared(map, txid, txHex) ==
    [t \in DOMAIN map \cup {txid} |-> BufferFromHex(txHex)]

\* lines 122, 256: transactionMap[utxo.txid] = Buffer.from(txHex, 'hex')
Store(map, txid, txHex) ==
    [t \in DOMAIN map \cup {txid} |-> IF t = txid THEN BufferFromHex(txHex) ELSE map[t]]

\* lines 127-138, 263-274
SegwitInput(utxo, map) ==
    [hash |-> utxo.txid,
     index |-> utxo.vout,
     witnessUtxo |-> [script |-> WitnessScript, value |-> utxo.value],
     nonWitnessUtxo |-> Lookup(map, utxo.txid),
     bip32Derivation |-> InputDerivation,
     sequence |-> Sequence]

\* lines 191-201, 277-287
TaprootInput(utxo) ==
    [hash |-> utxo.txid,
     index |-> utxo.vout,
     witnessUtxo |-> [script |-> TaprootScript, value |-> utxo.value],
     tapBip32Derivation |-> TaprootInputDerivation,
     tapInternalKey |-> TapInternalKey,
     sequence |-> Sequence]

\* the classification of line 261 inverted
IsSegwitInputInverted(utxo, changeAddr) == utxo.address # changeAddr

\* line 261
IsSegwitInput(utxo, changeAddr) == utxo.address = changeAddr

\* lines 126-139
NativeSegwitInputs(utxos, map) == [i \in DOMAIN utxos |-> SegwitInput(utxos[i], map)]

\* lines 190-202
TaprootInputs(utxos) == [i \in DOMAIN utxos |-> TaprootInput(utxos[i])]

\* lines 260-289
MixedInputs(utxos, map, changeAddr) ==
    [i \in DOMAIN utxos |->
        IF IsSegwitInput(utxos[i], changeAddr) THEN SegwitInput(utxos[i], map)
        ELSE TaprootInput(utxos[i])]

\* lines 142-145, 205-208, 292-295
RecipientOutputs(rcpts) ==
    [i \in DOMAIN rcpts |->
        [address |-> rcpts[i].address, value |-> toNumber(rcpts[i].amountSats)]]

\* the comparison of lines 148, 211, 298 letting a zero change through
HasChangeOutputOrZero(change) == toNumber(change) >= 0

\* lines 148, 211, 298
HasChangeOutput(change) == toNumber(change) > 0

\* lines 141-153, 204-216, 291-303
Outputs(rcpts, changeAddr, change) ==
    RecipientOutputs(rcpts) \o
        (IF HasChangeOutput(change)
         THEN <<[address |-> changeAddr, value |-> toNumber(change)]>>
         ELSE <<>>)

\* one request per distinct transaction id
HexRequestsPerTxid(utxos) ==
    {i \in DOMAIN utxos : \A j \in 1..(i - 1) : utxos[j].txid # utxos[i].txid}

\* lines 119-124, 253-258: one request per element of inputUTXOs
HexRequests(utxos) == DOMAIN utxos

\* The caller passes what getTransactionData returned on to create*Psbt;
\* the locals of getTransactionData are gone by then.
HandOver(kind, changeAddr) ==
    /\ pc = "returned"
    /\ variant' = kind
    /\ changeAddress' = Some(changeAddr)
    /\ changeValue' = Get(returned).changeValue
    /\ inputUTXOs' = Get(returned).selectedUTXOs
    /\ feeRateInput' = Undefined
    /\ ordinalUtxo' = Undefined
    /\ gather' = NoPromises
    /\ unspentOutputs' = <<>>
    /\ addressOrdinalsUtxos' = <<>>
    /\ ordinalUtxoInPaymentAddress' = FALSE
    /\ filteredUnspentOutputs' = <<>>
    /\ feeRate' = defaultFeeRate
    /\ amountSats' = 0
    /\ selectedUTXOs' = <<>>
    /\ sumOfSelectedUTXOs' = 0
    /\ provisional' = Undefined
    /\ reconciled' = Undefined
    /\ UNCHANGED <<stxVars, recipients, returned, thrown>>

\* lines 104-124: the call creates the container and the map, issues the
\* raw-transaction requests and awaits them together
CallCreateNativeSegwitPsbt ==
    /\ \E changeAddr \in ChangeAddresses : HandOver("nativeSegwit", changeAddr)
    /\ pc' = "awaitHex"
    /\ psbt' = NoPsbt
    /\ transactionMap' = EmptyMap
    /\ hexFetch' = Pending(HexRequests(Get(returned).selectedUTXOs))
    /\ calls' = [calls EXCEPT !["getTransactionHex"] =
                    @ + Cardinality(HexRequests(Get(returned).selectedUTXOs))]
    /\ UNCHANGED psbtReturned

\* lines 235-258
CallCreateMixedPsbt ==
    /\ \E changeAddr \in ChangeAddresses : HandOver("mixed", changeAddr)
    /\ pc' = "awaitHex"
    /\ psbt' = NoPsbt
    /\ transactionMap' = EmptyMap
    /\ hexFetch' = Pending(HexRequests(Get(returned).selectedUTXOs))
    /\ calls' = [calls EXCEPT !["getTransactionHex"] =
                    @ + Cardinality(HexRequests(Get(returned).selectedUTXOs))]
    /\ UNCHANGED psbtReturned

\* lines 121-122, 255-256: one raw transaction arrives and is stored
GetTransactionHexResolves ==
    /\ \E i \in DOMAIN hexFetch.status :
         /\ hexFetch.status[i] = "pending"
         /\ hexFetch' = Resolve(hexFetch, i)
         /\ transactionMap' =
              Store(transactionMap, inputUTXOs[i].txid,
                    getTransactionHex(inputUTXOs[i].txid))
    /\ UNCHANGED <<stxVars, pc, argVars, gatherVars, localVars, calls, returned, thrown,
                   variant, changeAddress, changeValue, inputUTXOs, psbt,
                   psbtReturned>>

GetTransactionHexRejects ==
    /\ \E i \in DOMAIN hexFetch.status :
         /\ hexFetch.status[i] = "pending"
         /\ hexFetch' = Reject(hexFetch, i, CollaboratorError("getTransactionHex"))
    /\ UNCHANGED <<stxVars, pc, argVars, gatherVars, localVars, calls, returned, thrown,
                   variant, changeAddress, changeValue, inputUTXOs, transactionMap,
                   psbt, psbtReturned>>

\* lines 119, 253: the awaited Promise.all rejects, and so does create*Psbt
HexFetchFails ==
    /\ pc = "awaitHex"
    /\ Rejected(hexFetch)
    /\ pc' = "psbtThrown"
    /\ thrown' = hexFetch.rejection
    /\ UNCHANGED <<stxVars, argVars, gatherVars, localVars, calls, returned, asmVars>>

\* lines 126-155
CreateNativeSegwitPsbt ==
    /\ pc = "awaitHex"
    /\ variant = "nativeSegwit"
    /\ AllResolved(hexFetch)
    /\ LET built == [inputs |-> NativeSegwitInputs(inputUTXOs, transactionMap),
                     outputs |-> Outputs(recipients, Get(changeAddress), changeValue)]
       IN  /\ psbt' = built
           /\ psbtReturned' = Some(built)
    /\ pc' = "psbtReturned"
    /\ UNCHANGED <<stxVars, argVars, gatherVars, localVars, calls, returned, thrown, variant,
                   changeAddress, changeValue, inputUTXOs, hexFetch, transactionMap>>

\* lines 260-305
CreateMixedPsbt ==
    /\ pc = "awaitHex"
    /\ variant = "mixed"
    /\ AllResolved(hexFetch)
    /\ LET built == [inputs |-> MixedInputs(inputUTXOs, transactionMap,
                                            Get(changeAddress)),
                     outputs |-> Outputs(recipients, Get(changeAddress), changeValue)]
       IN  /\ psbt' = built
           /\ psbtReturned' = Some(built)
    /\ pc' = "psbtReturned"
    /\ UNCHANGED <<stxVars, argVars, gatherVars, localVars, calls, returned, thrown, variant,
                   changeAddress, changeValue, inputUTXOs, hexFetch, transactionMap>>

\* lines 177-219: nothing is awaited, the whole body runs at the call
CreateTaprootPsbt ==
    /\ \E changeAddr \in ChangeAddresses :
         /\ HandOver("taproot", changeAddr)
         /\ LET built == [inputs |-> TaprootInputs(Get(returned).selectedUTXOs),
                          outputs |-> Outputs(recipients, changeAddr,
                                              Get(returned).changeValue)]
            IN  /\ psbt' = built
                /\ psbtReturned' = Some(built)
    /\ pc' = "psbtReturned"
    /\ UNCHANGED <<calls, hexFetch, transactionMap>>

CreatePsbtStep ==
    \/ CallCreateNativeSegwitPsbt
    \/ CallCreateMixedPsbt
    \/ GetTransactionHexResolves
    \/ GetTransactionHexRejects
    \/ HexFetchFails
    \/ CreateNativeSegwitPsbt
    \/ CreateMixedPsbt
    \/ CreateTaprootPsbt

GetTransactionDataStep ==
    \/ CallGetTransactionData
    \/ GetUnspentUtxosResolves
    \/ GetUnspentUtxosRejects
    \/ GetOrdinalsUtxosResolves
    \/ GetOrdinalsUtxosRejects
    \/ GatherFails
    \/ SelectProvisional
    \/ FetchBtcFeeRateResolves
    \/ FetchBtcFeeRateRejects
    \/ GetFeeResolves
    \/ GetFeeRejects

Next == GetTransactionDataStep \/ CreatePsbtStep

Spec == Init /\ [][Next]_vars

(* -------------------- addSignatureToStxTransaction --------------------- *)
\* Length of a raw signature in bytes, the length createMessageSignature
\* insists on, scaled down.
SignatureBytes == 2
MaxNonce == 1

Bytes == {0, 10, 255}
RawSignatures ==
    UNION {[1..n -> Bytes] : n \in (SignatureBytes - 1)..(SignatureBytes + 1)}

\* A serialized transaction: version, nonce, fee, the signature of its single
\* spending condition, payload.
SerializedTransactions ==
    {<<0, nonce, 1>> \o sig \o <<7>> :
        nonce \in 0..MaxNonce, sig \in [1..SignatureBytes -> {0, 255}]}

RECURSIVE BytesToHex(_)
\* Buffer.toString('hex'): two hex digits per byte
BytesToHex(bytes) ==
    IF bytes = <<>> THEN <<>>
    ELSE <<Head(bytes) \div 16, Head(bytes) % 16>> \o BytesToHex(Tail(bytes))

\* deserializeTransaction of @stacks/transactions
deserializeTransaction(bytes) ==
    [version |-> bytes[1],
     auth |-> [authType |-> "Standard",
               spendingCondition |->
                   [nonce |-> bytes[2],
                    fee |-> bytes[3],
                    signature |->
                        [type |-> "MessageSignature",
                         data |-> BytesToHex(SubSeq(bytes, 4, 3 + SignatureBytes))]]],
     payload |-> SubSeq(bytes, 4 + SignatureBytes, Len(bytes))]

\* createMessageSignature of @stacks/transactions accepts a signature of the
\* right length only
ValidSignature(hex) == Len(BufferFromHex(hex)) = SignatureBytes
createMessageSignature(hex) == [type |-> "MessageSignature", data |-> hex]

\* line 160: signatureVRS.toString('hex')
SignatureHex(sig) == BytesToHex(sig)

\* an assignment that replaces the whole spending condition
AssignSpendingCondition(tx, sig) ==
    [tx EXCEPT !.auth.spendingCondition = [signature |-> sig]]

\* line 161: deserializedTx.auth.spendingCondition.signature = spendingCondition
AssignSignature(tx, sig) == [tx EXCEPT !.auth.spendingCondition.signature = sig]

InitStx ==
    /\ pc = "patch"
    /\ transaction \in SerializedTransactions
    /\ signatureVRS \in RawSignatures
    /\ stxReturned = Undefined
    /\ recipients = <<>>
    /\ feeRateInput = Undefined
    /\ ordinalUtxo = Undefined
    /\ gather = NoPromises
    /\ unspentOutputs = <<>>
    /\ addressOrdinalsUtxos = <<>>
    /\ ordinalUtxoInPaymentAddress = FALSE
    /\ filteredUnspentOutputs = <<>>
    /\ feeRate = defaultFeeRate
    /\ amountSats = 0
    /\ selectedUTXOs = <<>>
    /\ sumOfSelectedUTXOs = 0
    /\ provisional = Undefined
    /\ reconciled = Undefined
    /\ calls = [c \in Collaborators |-> 0]
    /\ returned = Undefined
    /\ thrown = Undefined
    /\ variant = "none"
    /\ changeAddress = Undefined
    /\ changeValue = 0
    /\ inputUTXOs = <<>>
    /\ hexFetch = NoPromises
    /\ transactionMap = EmptyMap
    /\ psbt = NoPsbt
    /\ psbtReturned = Undefined

\* lines 158-163
AddSignatureToStxTransaction ==
    /\ pc = "patch"
    /\ LET deserializedTx == deserializeTransaction(transaction)
           hex == SignatureHex(signatureVRS)
       IN  IF ValidSignature(hex)
           THEN /\ stxReturned' =
                     Some(AssignSignature(deserializedTx, createMessageSignature(hex)))
                /\ pc' = "patched"
                /\ thrown' = thrown
           ELSE /\ stxReturned' = stxReturned
                /\ pc' = "patchThrown"
                /\ thrown' = Some("Invalid signature")
    /\ UNCHANGED <<transaction, signatureVRS, argVars, gatherVars, localVars, calls,
                   returned, asmVars>>

NextStx == AddSignatureToStxTransaction

SpecStx == InitStx /\ [][NextStx]_vars

(* ------------------------------ properties ---------------------------- *)
\* getTransactionData has run its provisional selection and still holds its locals
Selected == IsDefined(provisional)

Succeeded == pc = "returned"

PinnedIsCandidate ==
    /\ IsDefined(ordinalUtxo)
    /\ \E u \in Range(filteredUnspentOutputs) : SameOutpoint(u, Get(ordinalUtxo))

\* the value the selection can draw on: the candidates and the pinned output
Fundable ==
    sumUnspentOutputs(filteredUnspentOutputs) +
        (IF IsDefined(ordinalUtxo) /\ ~PinnedIsCandidate THEN Get(ordinalUtxo).value
         ELSE 0)

FastRejected ==
    /\ pc = "thrown"
    /\ thrown = Some(InSufficientBalanceWithTxFee)
    /\ calls["fetchBtcFeeRate"] = 0

\* C1 as stated: whenever the candidates total less than the target,
\* getTransactionData fails with InsufficientFunds and the fee rate has not
\* been and is never fetched.
C1_CandidatesBelowTargetRejected ==
    (Selected /\ sumUnspentOutputs(filteredUnspentOutputs) < amountSats)
        => FastRejected

\* C1 amended: whenever the candidates together with the pinned output
\* (counted once) total less than the target, getTransactionData fails with
\* InsufficientFunds and the fee rate has not been and is never fetched.
C1_FundableBelowTargetRejected ==
    (Selected /\ Fundable < amountSats) => FastRejected

C1_Witness ==
    /\ Selected
    /\ IsDefined(ordinalUtxo)
    /\ filteredUnspentOutputs # <<>>
    /\ Fundable < amountSats
    /\ FastRejected

\* C2: the change of a successful outcome is never negative.
C2_ChangeNeverNegative ==
    IsDefined(returned) => Get(returned).changeValue >= 0

\* C3: in a successful outcome the change is the total of the returned
\* selection less the recipients' total less the returned fee.
C3_ChangeOfReturnedTriple ==
    IsDefined(returned) =>
        Get(returned).changeValue =
            sumUnspentOutputs(Get(returned).selectedUTXOs)
                - AmountSats(recipients) - Get(returned).fee

C3_Witness ==
    /\ Succeeded
    /\ Get(returned).fee > 0
    /\ Len(Get(reconciled).newSelectedUnspentOutputs) > Len(Get(provisional))
    /\ Get(returned).selectedUTXOs # Get(provisional)

RECURSIVE TotalInputValue(_)
TotalInputValue(inputs) ==
    IF inputs = <<>> THEN 0
    ELSE Head(inputs).witnessUtxo.value + TotalInputValue(Tail(inputs))

RECURSIVE TotalOutputValue(_)
TotalOutputValue(outputs) ==
    IF outputs = <<>> THEN 0
    ELSE Head(outputs).value + TotalOutputValue(Tail(outputs))

\* C5: every container assembled from a successful getTransactionData result
\* spends at least as much as it pays out, change output included.
C5_InputsCoverOutputs ==
    IsDefined(psbtReturned) =>
        TotalInputValue(Get(psbtReturned).inputs)
            >= TotalOutputValue(Get(psbtReturned).outputs)

C5_Witness ==
    /\ IsDefined(psbtReturned)
    /\ changeValue < 0
    /\ Len(Get(psbtReturned).inputs) > 1
    /\ Len(Get(psbtReturned).outputs) = Len(recipients)
    /\ recipients # <<>>

Assembled == IsDefined(psbtReturned)

InputTxids == {inputUTXOs[i].txid : i \in DOMAIN inputUTXOs}

\* C6: whichever variant assembled it, the container's outputs are one per
\* recipient in recipient order (address, amount), then one output of the
\* change value to the change address when the change is positive, and
\* nothing more when it is not.
C6_OutputSequence ==
    Assembled =>
        LET outputs == Get(psbtReturned).outputs
            n == Len(recipients)
        IN  /\ Len(outputs) = (IF changeValue > 0 THEN n + 1 ELSE n)
            /\ \A i \in 1..n :
                 outputs[i] = [address |-> recipients[i].address,
                               value |-> recipients[i].amountSats]
            /\ changeValue > 0 =>
                 outputs[n + 1] = [address |-> Get(changeAddress),
                                   value |-> changeValue]

C6_Witness ==
    /\ Assembled
    /\ variant = "mixed"
    /\ Len(recipients) = 2
    /\ recipients[1] # recipients[2]
    /\ changeValue > 0
    /\ Len(Get(psbtReturned).outputs) = 3

\* a second case of C6: a change of exactly zero leaves the recipients alone
C6_WitnessZeroChange ==
    /\ Assembled
    /\ variant = "taproot"
    /\ changeValue = 0
    /\ Len(Get(psbtReturned).outputs) = Len(recipients)

SegwitShaped(input, utxo) ==
    /\ DOMAIN input = {"hash", "index", "witnessUtxo", "nonWitnessUtxo",
                       "bip32Derivation", "sequence"}
    /\ input.witnessUtxo = [script |-> WitnessScript, value |-> utxo.value]
    /\ input.bip32Derivation = InputDerivation
    /\ input.nonWitnessUtxo = BufferFromHex(getTransactionHex(utxo.txid))

TaprootShaped(input, utxo) ==
    /\ DOMAIN input = {"hash", "index", "witnessUtxo", "tapBip32Derivation",
                       "tapInternalKey", "sequence"}
    /\ input.witnessUtxo = [script |-> TaprootScript, value |-> utxo.value]
    /\ input.tapBip32Derivation = TaprootInputDerivation
    /\ input.tapInternalKey = TapInternalKey

\* C8: createMixedPsbt gives every selected input owned by the change address
\* the segwit shape and every other input the taproot shape, one input per
\* selected output and in the order of the selection.
C8_MixedClassification ==
    (Assembled /\ variant = "mixed") =>
        LET inputs == Get(psbtReturned).inputs
        IN  /\ Len(inputs) = Len(inputUTXOs)
            /\ \A i \in DOMAIN inputUTXOs :
                 /\ inputs[i].hash = inputUTXOs[i].txid
                 /\ inputs[i].index = inputUTXOs[i].vout
                 /\ IF inputUTXOs[i].address = Get(changeAddress)
                    THEN SegwitShaped(inputs[i], inputUTXOs[i])
                    ELSE TaprootShaped(inputs[i], inputUTXOs[i])

C8_Witness ==
    /\ Assembled
    /\ variant = "mixed"
    /\ Len(inputUTXOs) = 3
    /\ \E i, j \in DOMAIN inputUTXOs :
         /\ inputUTXOs[i].address = Get(changeAddress)
         /\ inputUTXOs[j].address # Get(changeAddress)
         /\ "nonWitnessUtxo" \in DOMAIN Get(psbtReturned).inputs[i]
         /\ "tapInternalKey" \in DOMAIN Get(psbtReturned).inputs[j]

\* C9: every input of every container carries the sequence 0xfffffffd
\* (0xffff, 0xfffd), whichever variant and branch attached it.
C9_SequenceOfEveryInput ==
    \A i \in DOMAIN psbt.inputs : psbt.inputs[i].sequence = <<65535, 65533>>

C9_Witness ==
    /\ Assembled
    /\ variant = "mixed"
    /\ \E i, j \in DOMAIN psbt.inputs :
         /\ "bip32Derivation" \in DOMAIN psbt.inputs[i]
         /\ "tapBip32Derivation" \in DOMAIN psbt.inputs[j]

\* a second case of C9: the taproot variant
C9_WitnessTaproot ==
    /\ Assembled
    /\ variant = "taproot"
    /\ Len(psbt.inputs) = 3

FailedIn(names) == \E n \in names : thrown = Some(CollaboratorError(n))

\* C10: once a collaborator has failed, the call in flight goes no further
\* than rejecting with that failure: a failed retrieval yields no selection
\* and no result, a failed fee-rate fetch or reconciliation yields no result,
\* a failed raw-transaction fetch yields no container and leaves none with
\* inputs or outputs attached.
C10_FailureAborts ==
    /\ Rejected(gather) =>
         /\ pc \in {"awaitGather", "thrown"}
         /\ ~Selected
         /\ returned = Undefined
         /\ pc = "thrown" => thrown = gather.rejection
    /\ FailedIn({"fetchBtcFeeRate", "getFee"}) =>
         /\ pc = "thrown"
         /\ returned = Undefined
    /\ Rejected(hexFetch) =>
         /\ pc \in {"awaitHex", "psbtThrown"}
         /\ psbtReturned = Undefined
         /\ psbt = NoPsbt
         /\ pc = "psbtThrown" => thrown = hexFetch.rejection
    /\ IsDefined(thrown) => psbtReturned = Undefined
    /\ pc = "thrown" => returned = Undefined

C10_Witness ==
    /\ pc = "psbtThrown"
    /\ thrown = Some(CollaboratorError("getTransactionHex"))
    /\ transactionMap # EmptyMap
    /\ \E i \in DOMAIN hexFetch.status : hexFetch.status[i] = "ok"

\* a second case of C10: one retrieval failed, the other delivered
C10_WitnessGather ==
    /\ pc = "thrown"
    /\ thrown = Some(CollaboratorError("getOrdinalsUtxos"))
    /\ gather.status["getUnspentUtxos"] = "ok"
    /\ unspentOutputs # <<>>

InGetTransactionData ==
    pc \in {"awaitGather", "awaitFeeRate", "awaitGetFee", "returned", "thrown"}

\* C12: the flag of a successful outcome is true exactly when a pinned output
\* is supplied and the unspent outputs as retrieved, before any filtering,
\* hold an output with its transaction id and index.
C12_PinnedIsOwnFunds ==
    Succeeded =>
        Get(returned).ordinalUtxoInPaymentAddress =
            (/\ IsDefined(ordinalUtxo)
             /\ \E i \in DOMAIN unspentOutputs :
                  /\ unspentOutputs[i].txid = Get(ordinalUtxo).txid
                  /\ unspentOutputs[i].vout = Get(ordinalUtxo).vout)

\* the pinned output is an own output that filtering removed from the candidates
C12_Witness ==
    /\ Succeeded
    /\ Get(returned).ordinalUtxoInPaymentAddress
    /\ ~PinnedIsCandidate
    /\ Len(unspentOutputs) = 2
    /\ Len(filteredUnspentOutputs) = 1

\* a second case of C12: a pinned output sharing only its transaction id
C12_WitnessOtherIndex ==
    /\ Succeeded
    /\ IsDefined(ordinalUtxo)
    /\ ~Get(returned).ordinalUtxoInPaymentAddress
    /\ \E i \in DOMAIN unspentOutputs : unspentOutputs[i].txid = Get(ordinalUtxo).txid

\* getFee has answered and getTransactionData still holds its locals
Reconciled == IsDefined(reconciled) /\ IsDefined(provisional)

\* C13: when reconciliation answers with a selection of another size, its
\* total is recomputed; a total below target plus fee fails the call with
\* InsufficientFunds, any other total and its selection replace the
\* provisional ones.
C13_Revalidation ==
    (Reconciled /\ Len(Get(reconciled).newSelectedUnspentOutputs)
                      # Len(Get(provisional))) =>
        LET new == Get(reconciled).newSelectedUnspentOutputs
            total == sumUnspentOutputs(new)
        IN  IF total < amountSats + Get(reconciled).fee
            THEN /\ pc = "thrown"
                 /\ thrown = Some(InSufficientBalanceWithTxFee)
                 /\ returned = Undefined
            ELSE /\ pc = "returned"
                 /\ selectedUTXOs = new
                 /\ sumOfSelectedUTXOs = total
                 /\ Get(returned).selectedUTXOs = new

C13_Witness ==
    /\ Reconciled
    /\ Len(Get(reconciled).newSelectedUnspentOutputs) > Len(Get(provisional))
    /\ pc = "thrown"
    /\ thrown = Some(InSufficientBalanceWithTxFee)
    /\ calls["getFee"] = 1

\* a second case of C13: a smaller selection that no longer covers the target
C13_WitnessShrunk ==
    /\ Reconciled
    /\ Len(Get(reconciled).newSelectedUnspentOutputs) < Len(Get(provisional))
    /\ pc = "thrown"
    /\ Get(reconciled).fee = 0

InOrderAtMostOnce ==
    /\ calls["selectUnspentOutputs"] <= 1
    /\ calls["fetchBtcFeeRate"] <= calls["selectUnspentOutputs"]
    /\ calls["getFee"] <= calls["fetchBtcFeeRate"]
    /\ (InGetTransactionData /\ calls["getFee"] = 1) => feeRate = networkFeeRate

\* C14: within a request the selection heuristic, the fee-rate fetch and
\* reconciliation are invoked in that order, each at most once, and after an
\* InsufficientFunds failure no collaborator is invoked again.
C14_OrderNoRetry ==
    /\ []InOrderAtMostOnce
    /\ [][thrown = Some(InSufficientBalanceWithTxFee) => calls' = calls]_vars

C14_Witness ==
    /\ pc = "thrown"
    /\ thrown = Some(InSufficientBalanceWithTxFee)
    /\ calls["selectUnspentOutputs"] = 1
    /\ calls["fetchBtcFeeRate"] = 1
    /\ calls["getFee"] = 1

\* C15: in the segwit and the mixed variant no input is attached before
\* every raw-transaction fetch issued for the selection has fulfilled.
C15_NoInputBeforeJoin ==
    (variant \in {"nativeSegwit", "mixed"} /\ psbt.inputs # <<>>) =>
        /\ DOMAIN hexFetch.status = DOMAIN inputUTXOs
        /\ \A i \in DOMAIN hexFetch.status : hexFetch.status[i] = "ok"

C15_Witness ==
    /\ variant = "mixed"
    /\ Len(psbt.inputs) = 3
    /\ \A i \in 1..3 : hexFetch.status[i] = "ok"

\* the fetches are in flight, some answered, and nothing is attached
C15_WitnessInFlight ==
    /\ variant = "nativeSegwit"
    /\ pc = "awaitHex"
    /\ \E i, j \in DOMAIN hexFetch.status :
         hexFetch.status[i] = "ok" /\ hexFetch.status[j] = "pending"
    /\ psbt = NoPsbt

\* C16: filtering, the selection heuristic, the fee-rate fetch and
\* reconciliation run only once both retrievals have fulfilled, and not at
\* all once one of them has failed.
C16_GatherJoined ==
    InGetTransactionData =>
        /\ (\/ Selected
            \/ calls["selectUnspentOutputs"] > 0
            \/ calls["fetchBtcFeeRate"] > 0
            \/ calls["getFee"] > 0) =>
               /\ gather.status["getUnspentUtxos"] = "ok"
               /\ gather.status["getOrdinalsUtxos"] = "ok"
        /\ (\E n \in DOMAIN gather.status : gather.status[n] = "failed") =>
               /\ ~Selected
               /\ filteredUnspentOutputs = <<>>
               /\ calls["selectUnspentOutputs"] = 0
               /\ calls["fetchBtcFeeRate"] = 0
               /\ calls["getFee"] = 0

C16_Witness ==
    /\ pc = "awaitFeeRate"
    /\ unspentOutputs # <<>>
    /\ addressOrdinalsUtxos # <<>>
    /\ filteredUnspentOutputs # <<>>
    /\ calls["fetchBtcFeeRate"] = 1

\* the two retrievals are in flight together
C16_WitnessConcurrent ==
    /\ pc = "awaitGather"
    /\ gather.status["getUnspentUtxos"] = "pending"
    /\ gather.status["getOrdinalsUtxos"] = "ok"
    /\ ~Selected

\* C17: whatever the order in which the fetches complete, also with several
\* inputs of one transaction, an entry of the map never changes once written,
\* a segwit-style input carries the raw bytes of its own parent transaction
\* and a taproot-style input carries none.
OwnParentBytes ==
    \A i \in DOMAIN psbt.inputs :
        IF "bip32Derivation" \in DOMAIN psbt.inputs[i]
        THEN psbt.inputs[i].nonWitnessUtxo =
                 BufferFromHex(getTransactionHex(psbt.inputs[i].hash))
        ELSE "nonWitnessUtxo" \notin DOMAIN psbt.inputs[i]

\* an entry of the map, once written, keeps its bytes while the fetches of
\* the call complete
EntriesKept ==
    pc = "awaitHex" =>
        \A t \in DOMAIN transactionMap :
            t \in DOMAIN transactionMap' /\ transactionMap'[t] = transactionMap[t]

C17_ParentBytes == []OwnParentBytes /\ [][EntriesKept]_vars

C17_Witness ==
    /\ Assembled
    /\ variant = "nativeSegwit"
    /\ Len(psbt.inputs) = 3
    /\ Cardinality(InputTxids) = 2
    /\ psbt.inputs[1].nonWitnessUtxo # psbt.inputs[2].nonWitnessUtxo
    /\ psbt.inputs[2].nonWitnessUtxo = psbt.inputs[3].nonWitnessUtxo

\* a second case of C17: the mixed variant with a taproot-style input
C17_WitnessMixed ==
    /\ Assembled
    /\ variant = "mixed"
    /\ \E i, j \in DOMAIN psbt.inputs :
         /\ "nonWitnessUtxo" \in DOMAIN psbt.inputs[i]
         /\ "tapInternalKey" \in DOMAIN psbt.inputs[j]

WellFormed(sig) == Len(sig) = SignatureBytes

\* C11: for a well-formed raw signature the call returns the deserialized
\* transaction with the signature slot holding the encoding of that
\* signature, which reads back as the raw bytes, and nothing else changed.
C11_SignatureRoundTrip ==
    (pc \in {"patched", "patchThrown"} /\ WellFormed(signatureVRS)) =>
        /\ pc = "patched"
        /\ IsDefined(stxReturned)
        /\ LET slot == Get(stxReturned).auth.spendingCondition.signature
               before == deserializeTransaction(transaction)
           IN  /\ slot.type = "MessageSignature"
               /\ BufferFromHex(slot.data) = signatureVRS
               /\ Len(slot.data) = 2 * SignatureBytes
               /\ Get(stxReturned).version = before.version
               /\ Get(stxReturned).payload = before.payload
               /\ Get(stxReturned).auth.authType = before.auth.authType
               /\ DOMAIN Get(stxReturned).auth.spendingCondition =
                      DOMAIN before.auth.spendingCondition
               /\ Get(stxReturned).auth.spendingCondition.nonce =
                      before.auth.spendingCondition.nonce
               /\ Get(stxReturned).auth.spendingCondition.fee =
                      before.auth.spendingCondition.fee

C11_Witness ==
    /\ pc = "patched"
    /\ WellFormed(signatureVRS)
    /\ signatureVRS = <<10, 255>>
    /\ Get(stxReturned).auth.spendingCondition.signature.data = <<0, 10, 15, 15>>
    /\ Get(stxReturned).auth.spendingCondition.nonce = 1
    /\ deserializeTransaction(transaction).auth.spendingCondition.signature.data
           # <<0, 10, 15, 15>>

====
